---- MODULE Spec2Model ----
(***************************************************************************)
(* oid-registry: the build-time generator (src/load.rs: load_file and      *)
(* generate_file) and the runtime registry (src/lib.rs: OidRegistry,       *)
(* format_oid).                                                            *)
(*                                                                         *)
(* A string is a sequence of one-character strings, so that splitting,     *)
(* replacing and joining are computed character by character.  A line of   *)
(* generated text is the format string of its writeln! with the arguments  *)
(* it was given.                                                           *)
(***************************************************************************)
EXTENDS Integers, Sequences, FiniteSets, TLC

VARIABLES file, pc, result, dest, run, prev, registry, last

vars == <<file, pc, result, dest, run, prev, registry, last>>
genVars == <<file, pc, result, dest, run, prev>>
regVars == <<registry, last>>

\* Bounds of the model.
MaxLines == 3
MaxLineLen == 5

----------------------------------------------------------------------------
\* Characters and strings

TAB == "\t"
HYPHEN == "-"
UNDERSCORE == "_"
HASH == "#"
QUOTE == "\""

Alphabet == {"a", HYPHEN, TAB, HASH}

\* every string over Alphabet of length at most n
StringsUpTo(n) == UNION {[1..k -> Alphabet] : k \in 0..n}

\* str::is_empty
is_empty(s) == Len(s) = 0

\* str::starts_with(char)
starts_with(s, c) == Len(s) > 0 /\ s[1] = c

\* position of the first c in s, 0 when there is none
Find(s, c) ==
    IF \E i \in 1..Len(s) : s[i] = c
    THEN CHOOSE i \in 1..Len(s) : s[i] = c /\ \A j \in 1..(i - 1) : s[j] # c
    ELSE 0

\* splitn without its limit: str::split(sep)
RECURSIVE splitn_unlimited(_, _, _)
splitn_unlimited(n, sep, s) ==
    IF Find(s, sep) = 0 THEN <<s>>
    ELSE LET i == Find(s, sep)
         IN  <<SubSeq(s, 1, i - 1)>> \o splitn_unlimited(n, sep, SubSeq(s, i + 1, Len(s)))

\* str::splitn(n, sep): at most n items, the last one the unsplit remainder
RECURSIVE splitn(_, _, _)
splitn(n, sep, s) ==
    IF n = 0 THEN <<>>
    ELSE IF n = 1 \/ Find(s, sep) = 0 THEN <<s>>
    ELSE LET i == Find(s, sep)
         IN  <<SubSeq(s, 1, i - 1)>> \o splitn(n - 1, sep, SubSeq(s, i + 1, Len(s)))

\* str::replace(from, to) for one-character patterns
replace(s, from, to) == [i \in 1..Len(s) |-> IF s[i] = from THEN to ELSE s[i]]

----------------------------------------------------------------------------
\* load_file

\* the messages of the five expect() calls, in the order of the calls
ExpectMsgs ==
    << "invalid oid_db format: missing feature",
       "invalid oid_db format: missing name",
       "invalid oid_db format: missing OID",
       "invalid oid_db format: missing short name",
       "invalid oid_db format: missing description" >>

\* struct Entry
Entry(name, oid, sn, description) ==
    [name |-> name, oid |-> oid, sn |-> sn, description |-> description]

NoEntry == Entry(<<>>, <<>>, <<>>, <<>>)

\* the line is skipped by the loop's continue
Skipped(line) == is_empty(line) \/ starts_with(line, HASH)

\* Iterator::next on the items of splitn: the n-th call
next(iter, n) ==
    IF n <= Len(iter) THEN [some |-> TRUE, v |-> iter[n]]
    ELSE [some |-> FALSE, v |-> <<>>]

\* a panic raised by Option::expect(msg)
Panicked(msg) == [ok |-> FALSE, msg |-> msg, feature |-> <<>>, entry |-> NoEntry]

\* ParseLine with the message of the OID's expect copied to the short name's
ParseLine_copiedMsg(line) ==
    LET iter == splitn(5, TAB, line)
    IN  IF Len(iter) < 5
        THEN Panicked(ExpectMsgs[IF Len(iter) = 3 THEN 3 ELSE Len(iter) + 1])
        ELSE [ok |-> TRUE, msg |-> "",
              feature |-> replace(iter[1], HYPHEN, UNDERSCORE),
              entry |-> Entry(iter[2], iter[3], iter[4], iter[5])]

\* The body of the loop for one line that is not skipped: the five
\* iter.next().expect(..) calls in order; the first that finds the iterator
\* exhausted panics with its message.
ParseLine(line) ==
    LET iter == splitn(5, TAB, line)
        feature == next(iter, 1)
        name == next(iter, 2)
        oid == next(iter, 3)
        sn == next(iter, 4)
        description == next(iter, 5)
    IN  IF ~feature.some THEN Panicked(ExpectMsgs[1])
        ELSE IF ~name.some THEN Panicked(ExpectMsgs[2])
        ELSE IF ~oid.some THEN Panicked(ExpectMsgs[3])
        ELSE IF ~sn.some THEN Panicked(ExpectMsgs[4])
        ELSE IF ~description.some THEN Panicked(ExpectMsgs[5])
        ELSE [ok |-> TRUE, msg |-> "",
              feature |-> replace(feature.v, HYPHEN, UNDERSCORE),
              entry |-> Entry(name.v, oid.v, sn.v, description.v)]

\* HashMap::new()
EmptyMap == [k \in {} |-> <<>>]

\* push_entry inserting at the front of the Vec
push_front(map, feature, entry) ==
    [k \in DOMAIN map \cup {feature} |->
        IF k = feature
        THEN (IF k \in DOMAIN map THEN <<entry>> \o map[k] ELSE <<entry>>)
        ELSE map[k]]

\* map.entry(feature).or_insert_with(Vec::new).push(entry)
push_entry(map, feature, entry) ==
    [k \in DOMAIN map \cup {feature} |->
        IF k = feature
        THEN (IF k \in DOMAIN map THEN Append(map[k], entry) ELSE <<entry>>)
        ELSE map[k]]

\* LoadLines skipping a malformed line instead of panicking
RECURSIVE LoadLines_skipMalformed(_, _, _)
LoadLines_skipMalformed(lines, i, map) ==
    IF i > Len(lines) THEN [tag |-> "Ok", map |-> map, msg |-> ""]
    ELSE IF Skipped(lines[i]) \/ ~ParseLine(lines[i]).ok
         THEN LoadLines_skipMalformed(lines, i + 1, map)
    ELSE LoadLines_skipMalformed(lines, i + 1,
            push_entry(map, ParseLine(lines[i]).feature, ParseLine(lines[i]).entry))

\* the for loop over the lines, from line i on, with the table built so far
RECURSIVE LoadLines(_, _, _)
LoadLines(lines, i, map) ==
    IF i > Len(lines) THEN [tag |-> "Ok", map |-> map, msg |-> ""]
    ELSE IF Skipped(lines[i]) THEN LoadLines(lines, i + 1, map)
    ELSE LET p == ParseLine(lines[i])
         IN  IF ~p.ok THEN [tag |-> "Panic", map |-> EmptyMap, msg |-> p.msg]
             ELSE LoadLines(lines, i + 1, push_entry(map, p.feature, p.entry))

load_file(lines) == LoadLines(lines, 1, EmptyMap)

----------------------------------------------------------------------------
\* generate_file

\* writeln!(out_file, fmt, args..): one line of the destination file
writeln(fmt, args) == [fmt |-> fmt, args |-> args]

FmtConst == "pub const {}: Oid<'static> = oid!({});"
FmtBlank == ""
FmtImplOpen == "impl OidRegistry {{"
FmtCfg == "    #[cfg(feature = \"{}\")]"
FmtFnOpen == "    pub fn with_{}(mut self) -> Self {{"
FmtInsert == "        self.insert(oid!({}), OidEntry::new(\"{}\", \"{}\"));"
FmtSelf == "        self"
FmtFnClose == "    }}"
FmtImplClose == "}}"

\* the name that suppresses the constant: the two characters ""
Sentinel == <<QUOTE, QUOTE>>

\* ConstLines taking the empty name for the sentinel
ConstLines_emptyName(v) ==
    IF v.name # <<>> THEN <<writeln(FmtConst, <<v.name, v.oid>>)>> ELSE <<>>

\* if v.name != "\"\"" { writeln!(pub const ..) }
ConstLines(v) ==
    IF v.name # Sentinel THEN <<writeln(FmtConst, <<v.name, v.oid>>)>> ELSE <<>>

RECURSIVE ConstsOfEntries(_, _)
ConstsOfEntries(entries, j) ==
    IF j > Len(entries) THEN <<>>
    ELSE ConstLines(entries[j]) \o ConstsOfEntries(entries, j + 1)

\* for feat_entries in map.values() { for v in feat_entries { .. } }
RECURSIVE ConstsLoop(_, _, _)
ConstsLoop(map, order, i) ==
    IF i > Len(order) THEN <<>>
    ELSE ConstsOfEntries(map[order[i]], 1) \o ConstsLoop(map, order, i + 1)

InsertLine(item) == writeln(FmtInsert, <<item.oid, item.sn, item.description>>)

\* MethodLines without the cfg attribute
MethodLines_noCfg(k, v) ==
    << writeln(FmtFnOpen, <<k>>) >>
    \o [j \in 1..Len(v) |-> InsertLine(v[j])]
    \o << writeln(FmtSelf, <<>>), writeln(FmtFnClose, <<>>), writeln(FmtBlank, <<>>) >>

\* one pass of for (k, v) in map { .. }
MethodLines(k, v) ==
    << writeln(FmtCfg, <<k>>), writeln(FmtFnOpen, <<k>>) >>
    \o [j \in 1..Len(v) |-> InsertLine(v[j])]
    \o << writeln(FmtSelf, <<>>), writeln(FmtFnClose, <<>>), writeln(FmtBlank, <<>>) >>

RECURSIVE MethodsLoop(_, _, _)
MethodsLoop(map, order, i) ==
    IF i > Len(order) THEN <<>>
    ELSE MethodLines(order[i], map[order[i]]) \o MethodsLoop(map, order, i + 1)

\* every line generate_file writes when no write fails, the table being
\* iterated in the given order
GenText(map, order) ==
    ConstsLoop(map, order, 1)
    \o << writeln(FmtBlank, <<>>), writeln(FmtImplOpen, <<>>) >>
    \o MethodsLoop(map, order, 1)
    \o << writeln(FmtImplClose, <<>>) >>

\* The orders in which a HashMap with the key set S may be iterated: the
\* hasher is seeded at random when the table is created.
IterOrders(S) ==
    {s \in [1..Cardinality(S) -> S] : \A i, j \in 1..Cardinality(S) : s[i] = s[j] => i = j}

\* the number of writeln! calls generate_file makes on the table
NumWrites(map) == Len(GenText(map, CHOOSE o \in IterOrders(DOMAIN map) : TRUE))

NoFile == [exists |-> FALSE, lines |-> <<>>]

\* generate_file(map, dest_path) when File::create succeeded and the first
\* failing write, if any, is write number failAt + 1 (failAt = number of
\* lines: no write fails)
generate_file(map, order, failAt) ==
    LET text == GenText(map, order)
    IN  [tag |-> IF failAt >= Len(text) THEN "Ok" ELSE "IoErr",
         dest |-> [exists |-> TRUE, lines |-> SubSeq(text, 1, failAt)]]

----------------------------------------------------------------------------
\* Definition files

crypto == <<"c", "r", "y", "p", "t", "o">>
OID_FOO == <<"O", "I", "D", "_", "F", "O", "O">>
oid_1_2_3_4 == <<"1", ".", "2", ".", "3", ".", "4">>
oid_1_2_3_5 == <<"1", ".", "2", ".", "3", ".", "5">>
oid_2_10 == <<"2", ".", "1", "0">>
foo == <<"f", "o", "o">>
bar == <<"b", "a", "r">>
Foo_algorithm == <<"F", "o", "o", " ", "a", "l", "g", "o", "r", "i", "t", "h", "m">>
nist_hyphen_hash == <<"n", "i", "s", "t", "-", "h", "a", "s", "h">>
nist_hash == <<"n", "i", "s", "t", "_", "h", "a", "s", "h">>

\* fields joined by single tabs
RECURSIVE JoinTab(_)
JoinTab(fields) ==
    IF Len(fields) = 0 THEN <<>>
    ELSE IF Len(fields) = 1 THEN fields[1]
    ELSE fields[1] \o <<TAB>> \o JoinTab(Tail(fields))

LineFoo == JoinTab(<<crypto, OID_FOO, oid_1_2_3_4, foo, Foo_algorithm>>)
\* same feature, another OID, no constant wanted
LineBar == JoinTab(<<crypto, Sentinel, oid_1_2_3_5, bar, <<"B">> >>)
\* a hyphen in the feature and a tab inside the description (six fields)
LineHyphen == JoinTab(<<nist_hyphen_hash, <<"H">>, oid_2_10, <<"h">>, <<"x">>, <<"y">> >>)
\* the same feature once replaced, with a name and an OID used before
LineUnderscore == JoinTab(<<nist_hash, OID_FOO, oid_1_2_3_4, <<"h", "2">>, <<"D">> >>)
\* an empty name, which is not the sentinel
LineNoName == JoinTab(<<crypto, <<>>, oid_1_2_3_5, <<"k">>, <<"K">> >>)
LineComment == <<HASH, " ", "c">>
\* three fields only
LineShort == JoinTab(<<crypto, <<"X">>, oid_2_10>>)

CatalogLines ==
    {LineFoo, LineBar, LineHyphen, LineUnderscore, LineNoName,
     LineComment, LineShort}

\* The definition files of the model: every file of at most MaxLines lines of
\* the catalogue, and every one-line file over Alphabet.
Files ==
    UNION {[1..n -> CatalogLines] : n \in 0..MaxLines}
    \cup {<<l>> : l \in StringsUpTo(MaxLineLen)}

----------------------------------------------------------------------------
\* A run of the generator: load_file, then generate_file on its table

NoResult == [tag |-> "None", map |-> EmptyMap, msg |-> ""]
NoPrev == [ok |-> FALSE, lines |-> <<>>]
NoLast == [op |-> "none", oid |-> <<>>, entry |-> [sn |-> <<>>, description |-> <<>>], ret |-> <<>>]

\* the generator is started on a definition file; no registry exists at
\* build time
InitGen ==
    /\ file \in Files
    /\ pc = "start"
    /\ result = NoResult
    /\ dest = NoFile
    /\ run = 1
    /\ prev = NoPrev
    /\ registry = EmptyMap
    /\ last = NoLast

\* load_file reads every line: Ok(map), or the panic of an expect
LoadFile ==
    /\ pc = "start"
    /\ result' = load_file(file)
    /\ pc' = IF result'.tag = "Ok" THEN "loaded" ELSE "panicked"
    /\ UNCHANGED <<file, dest, run, prev, regVars>>

\* File::open(path)? or a line? returns the io::Error
LoadIoError ==
    /\ pc = "start"
    /\ result' = [tag |-> "IoErr", map |-> EmptyMap, msg |-> ""]
    /\ pc' = "load_failed"
    /\ UNCHANGED <<file, dest, run, prev, regVars>>

\* generate_file on the table load_file returned
GenerateFile ==
    /\ pc = "loaded"
    /\ \E order \in IterOrders(DOMAIN result.map) :
         \E failAt \in 0..NumWrites(result.map) :
            LET g == generate_file(result.map, order, failAt)
            IN  /\ dest' = g.dest
                /\ pc' = IF g.tag = "Ok" THEN "generated" ELSE "gen_failed"
    /\ UNCHANGED <<file, result, run, prev, regVars>>

\* File::create(&dest_path)? returns the io::Error: nothing is written
GenerateCreateFails ==
    /\ pc = "loaded"
    /\ pc' = "gen_failed"
    /\ UNCHANGED <<file, result, dest, run, prev, regVars>>

Terminal == {"panicked", "load_failed", "generated", "gen_failed"}

\* The build runs the generator again on the same definition file; the
\* destination file stays on disk.  prev keeps what a successful run wrote.
Rerun ==
    /\ pc \in Terminal
    /\ run < 2
    /\ run' = run + 1
    /\ prev' = IF pc = "generated" THEN [ok |-> TRUE, lines |-> dest.lines] ELSE NoPrev
    /\ pc' = "start"
    /\ result' = NoResult
    /\ UNCHANGED <<file, dest, regVars>>

NextGen == LoadFile \/ LoadIoError \/ GenerateFile \/ GenerateCreateFails \/ Rerun

Spec == InitGen /\ [][NextGen]_vars

----------------------------------------------------------------------------
\* Oid: the arcs of an object identifier (der_parser::oid::Oid)

Digits == <<"0", "1", "2", "3", "4", "5", "6", "7", "8", "9">>
DOT == "."

\* the decimal digits of a natural number
RECURSIVE Decimal(_)
Decimal(n) ==
    IF n < 10 THEN <<Digits[n + 1]>>
    ELSE Decimal(n \div 10) \o <<Digits[(n % 10) + 1]>>

\* Display for Oid: the arcs in decimal, separated by dots
RECURSIVE OidToString(_)
OidToString(oid) ==
    IF Len(oid) = 0 THEN <<>>
    ELSE IF Len(oid) = 1 THEN Decimal(oid[1])
    ELSE Decimal(oid[1]) \o <<DOT>> \o OidToString(Tail(oid))

DigitValue(c) == CHOOSE d \in 0..9 : Digits[d + 1] = c

RECURSIVE ParseDecimal(_, _)
ParseDecimal(s, acc) ==
    IF Len(s) = 0 THEN acc
    ELSE ParseDecimal(Tail(s), 10 * acc + DigitValue(s[1]))

\* oid!(a.b.c): the Oid of a dotted decimal text
RECURSIVE oid_macro(_)
oid_macro(text) ==
    LET i == Find(text, DOT)
    IN  IF i = 0 THEN <<ParseDecimal(text, 0)>>
        ELSE <<ParseDecimal(SubSeq(text, 1, i - 1), 0)>>
             \o oid_macro(SubSeq(text, i + 1, Len(text)))

----------------------------------------------------------------------------
\* OidEntry and OidRegistry

\* OidEntry::new(sn, description)
OidEntry_new(sn, description) == [sn |-> sn, description |-> description]

\* impl From<(&'static str, &'static str)> for OidEntry
OidEntry_from(t) == OidEntry_new(t[1], t[2])

NoOidEntry == OidEntry_new(<<>>, <<>>)
None == [some |-> FALSE, v |-> NoOidEntry]
Some(e) == [some |-> TRUE, v |-> e]

\* insert keeping the entry already stored (entry().or_insert())
insert_keepFirst(self, oid, entry) ==
    [self |-> [o \in DOMAIN self \cup {oid} |->
                 IF o \in DOMAIN self THEN self[o] ELSE entry],
     ret |-> IF oid \in DOMAIN self THEN Some(self[oid]) ELSE None]

\* HashMap::insert / OidRegistry::insert: the registry after the call and
\* the value returned
insert(self, oid, entry) ==
    [self |-> [o \in DOMAIN self \cup {oid} |-> IF o = oid THEN entry ELSE self[o]],
     ret |-> IF oid \in DOMAIN self THEN Some(self[oid]) ELSE None]

\* get taking the entry out of the table (HashMap::remove)
get_remove(self, oid) ==
    [self |-> [o \in DOMAIN self \ {oid} |-> self[o]],
     ret |-> IF oid \in DOMAIN self THEN Some(self[oid]) ELSE None]

\* OidRegistry::get
get(self, oid) ==
    [self |-> self,
     ret |-> IF oid \in DOMAIN self THEN Some(self[oid]) ELSE None]

\* OidRegistry::keys, values, iter: the items in the table's iteration order
keys(self, order) == [self |-> self, ret |-> order]

values(self, order) ==
    [self |-> self, ret |-> [i \in 1..Len(order) |-> self[order[i]]]]

iter(self, order) ==
    [self |-> self, ret |-> [i \in 1..Len(order) |-> <<order[i], self[order[i]]>>]]

\* format_oid printing the description in place of the short name
format_oid_description(oid, self) ==
    [self |-> self,
     ret |-> IF oid \in DOMAIN self
             THEN self[oid].description \o <<" ", "(">> \o OidToString(oid) \o <<")">>
             ELSE OidToString(oid)]

\* format_oid(oid, registry)
format_oid(oid, self) ==
    [self |-> self,
     ret |-> IF oid \in DOMAIN self
             THEN self[oid].sn \o <<" ", "(">> \o OidToString(oid) \o <<")">>
             ELSE OidToString(oid)]

----------------------------------------------------------------------------
\* The generated methods: include!(concat!(env!("OUT_DIR"), "/oid_db.rs"))

rsadsi == <<"r", "s", "a", "d", "s", "i">>
pkcs7 == <<"p", "k", "c", "s", "7">>
pkcs9 == <<"p", "k", "c", "s", "9">>
oid_1_2 == <<"1", ".", "2">>

\* the definition file the registry's methods are generated from
SampleDb ==
    << LineComment,
       JoinTab(<<rsadsi, <<"A">>, oid_1_2, <<"r">>, <<"R">> >>),
       JoinTab(<<nist_hyphen_hash, OID_FOO, oid_1_2_3_4, foo, Foo_algorithm>>),
       JoinTab(<<rsadsi, Sentinel, oid_1_2, <<"r", "2">>, <<"R">> >>),
       JoinTab(<<pkcs7, <<"C">>, oid_2_10, <<"p">>, <<"P">> >>),
       JoinTab(<<pkcs9, <<"D">>, oid_2_10, <<"q">>, <<"Q">> >>) >>

SampleMap == load_file(SampleDb).map

\* the text of oid_db.rs
OidDb == GenText(SampleMap, CHOOSE o \in IterOrders(DOMAIN SampleMap) : TRUE)

\* the self.insert(oid!(..), OidEntry::new("..", "..")) lines from line i
\* on, executed in order up to the method's closing "self"
RECURSIVE RunInserts(_, _, _)
RunInserts(self, text, i) ==
    IF i <= Len(text) /\ text[i].fmt = FmtInsert
    THEN RunInserts(insert(self, oid_macro(text[i].args[1]),
                           OidEntry_new(text[i].args[2], text[i].args[3])).self,
                    text, i + 1)
    ELSE self

\* the generated with_<feature>(mut self) -> Self
with_feature(self, feature) ==
    LET i == CHOOSE j \in 1..Len(OidDb) :
                 OidDb[j].fmt = FmtFnOpen /\ OidDb[j].args = <<feature>>
    IN  RunInserts(self, OidDb, i + 1)

\* OidRegistry::with_crypto
with_crypto(self) == with_feature(with_feature(self, rsadsi), nist_hash)

\* OidRegistry::with_all_crypto
with_all_crypto(self) ==
    with_feature(with_feature(with_feature(with_feature(self, rsadsi), nist_hash), pkcs7), pkcs9)

----------------------------------------------------------------------------
\* A program using the registry

MaxArc == 2

\* the OIDs the program inserts and looks up
Oids == {<<1, a>> : a \in 2..MaxArc} \cup {<<2, 10>>, <<1, 2, 3, 4>>}

\* the entries it inserts, as OidEntry values and as tuples
Entries == {OidEntry_new(<<"s">>, <<"d">>), OidEntry_new(<<"t">>, <<"d">>)}
Tuples == {<< <<"u">>, <<"f">> >>}

Features == DOMAIN SampleMap

Called(op, oid, entry, ret) == [op |-> op, oid |-> oid, entry |-> entry, ret |-> ret]

\* OidRegistry::default(); the generator is not running and its variables
\* keep one value
InitReg ==
    /\ registry = EmptyMap
    /\ last = NoLast
    /\ file = <<>>
    /\ pc = "start"
    /\ result = NoResult
    /\ dest = NoFile
    /\ run = 1
    /\ prev = NoPrev

Insert ==
    \E oid \in Oids, e \in Entries :
        LET r == insert(registry, oid, e)
        IN  /\ registry' = r.self
            /\ last' = Called("insert", oid, e, r.ret)
            /\ UNCHANGED genVars

InsertTuple ==
    \E oid \in Oids, t \in Tuples :
        LET r == insert(registry, oid, OidEntry_from(t))
        IN  /\ registry' = r.self
            /\ last' = Called("insert", oid, OidEntry_from(t), r.ret)
            /\ UNCHANGED genVars

Get ==
    \E oid \in Oids :
        LET r == get(registry, oid)
        IN  /\ registry' = r.self
            /\ last' = Called("get", oid, NoOidEntry, r.ret)
            /\ UNCHANGED genVars

Keys ==
    \E order \in IterOrders(DOMAIN registry) :
        LET r == keys(registry, order)
        IN  /\ registry' = r.self
            /\ last' = Called("keys", <<>>, NoOidEntry, r.ret)
            /\ UNCHANGED genVars

Values ==
    \E order \in IterOrders(DOMAIN registry) :
        LET r == values(registry, order)
        IN  /\ registry' = r.self
            /\ last' = Called("values", <<>>, NoOidEntry, r.ret)
            /\ UNCHANGED genVars

Iter ==
    \E order \in IterOrders(DOMAIN registry) :
        LET r == iter(registry, order)
        IN  /\ registry' = r.self
            /\ last' = Called("iter", <<>>, NoOidEntry, r.ret)
            /\ UNCHANGED genVars

FormatOid ==
    \E oid \in Oids :
        LET r == format_oid(oid, registry)
        IN  /\ registry' = r.self
            /\ last' = Called("format_oid", oid, NoOidEntry, r.ret)
            /\ UNCHANGED genVars

WithFeature ==
    \E f \in Features :
        /\ registry' = with_feature(registry, f)
        /\ last' = Called("with_feature", f, NoOidEntry, <<>>)
        /\ UNCHANGED genVars

WithCrypto ==
    /\ registry' = with_crypto(registry)
    /\ last' = Called("with_crypto", <<>>, NoOidEntry, <<>>)
    /\ UNCHANGED genVars

WithAllCrypto ==
    /\ registry' = with_all_crypto(registry)
    /\ last' = Called("with_all_crypto", <<>>, NoOidEntry, <<>>)
    /\ UNCHANGED genVars

NextReg ==
    \/ Insert \/ InsertTuple \/ Get \/ Keys \/ Values \/ Iter \/ FormatOid
    \/ WithFeature \/ WithCrypto \/ WithAllCrypto

SpecReg == InitReg /\ [][NextReg]_vars

----------------------------------------------------------------------------
\* What the definition file says, read off the line itself

IsDataLine(line) == Len(line) > 0 /\ line[1] # HASH

NumFields(line) == 1 + Cardinality({i \in 1..Len(line) : line[i] = TAB})

Malformed(line) == IsDataLine(line) /\ NumFields(line) < 5

\* position of the n-th tab of the line: 0 for n = 0
NthTab(line, n) ==
    IF n = 0 THEN 0
    ELSE CHOOSE i \in 1..Len(line) :
            line[i] = TAB /\ Cardinality({j \in 1..i : line[j] = TAB}) = n

\* field n (1..5) of a line of at least five fields; the fifth runs to the end
Field(line, n) ==
    SubSeq(line, NthTab(line, n - 1) + 1,
           IF n = 5 THEN Len(line) ELSE NthTab(line, n) - 1)

\* the feature of a line as a table key
Key(line) ==
    LET f == SubSeq(line, 1, IF NumFields(line) = 1 THEN Len(line) ELSE NthTab(line, 1) - 1)
    IN  [i \in 1..Len(f) |-> IF f[i] = HYPHEN THEN UNDERSCORE ELSE f[i]]

\* the line with the hyphens of its feature field replaced
Normalised(line) == Key(line) \o SubSeq(line, Len(Key(line)) + 1, Len(line))

DataLines == SelectSeq(file, IsDataLine)

LinesOfKey(k) == LET Test(l) == Key(l) = k IN SelectSeq(DataLines, Test)

NormalisedLinesOfKey(k) ==
    LET lines == LinesOfKey(k) IN [j \in 1..Len(lines) |-> Normalised(lines[j])]

Rejoined(k) ==
    LET v == result.map[k]
    IN  [j \in 1..Len(v) |-> JoinTab(<<k, v[j].name, v[j].oid, v[j].sn, v[j].description>>)]

\* the insert the generated code must hold for a line
InsertOf(line) == writeln(FmtInsert, <<Field(line, 3), Field(line, 4), Field(line, 5)>>)

\* the constant the generated code must hold for a line
ConstOf(line) == writeln(FmtConst, <<Field(line, 2), Field(line, 3)>>)

TwoQuotes == <<"\"", "\"">>

Occurrences(seq, x) == Cardinality({i \in 1..Len(seq) : seq[i] = x})

WithFmt(seq, fmt) == {i \in 1..Len(seq) : seq[i].fmt = fmt}

\* the lines of the method of feature k, after its opening line, that are inserts
MethodBody(text, k) ==
    LET i == CHOOSE j \in 1..Len(text) : text[j] = writeln(FmtFnOpen, <<k>>)
        n == CHOOSE m \in 0..(Len(text) - i) :
                /\ \A j \in (i + 1)..(i + m) : text[j].fmt = FmtInsert
                /\ (i + m + 1 <= Len(text) => text[i + m + 1].fmt # FmtInsert)
    IN  SubSeq(text, i + 1, i + n)

MissingMsg(n) ==
    CASE n = 1 -> "invalid oid_db format: missing feature"
      [] n = 2 -> "invalid oid_db format: missing name"
      [] n = 3 -> "invalid oid_db format: missing OID"
      [] n = 4 -> "invalid oid_db format: missing short name"
      [] n = 5 -> "invalid oid_db format: missing description"

----------------------------------------------------------------------------
\* C1: once load_file has read a file whose first malformed line (a data line
\* of k < 5 tab-separated fields) is line i, it has panicked, has returned no
\* table, and the message names field k + 1.
C1_MalformedLineNamesMissingField ==
    pc \notin {"start", "load_failed"} =>
        \A i \in 1..Len(file) :
            (Malformed(file[i]) /\ \A j \in 1..(i - 1) : ~Malformed(file[j])) =>
                /\ pc = "panicked"
                /\ result.tag = "Panic"
                /\ result.map = EmptyMap
                /\ result.msg = MissingMsg(NumFields(file[i]) + 1)

C1_Witness ==
    /\ pc = "panicked"
    /\ Len(file) = 1
    /\ NumFields(file[1]) = 4
    /\ result.msg = "invalid oid_db format: missing description"

\* C2 as stated: load_file does not fail on a file of well-formed lines, and
\* the entries of each key, joined with tabs behind the key, are the file's
\* lines of that key, byte for byte and in order.
C2_RejoinedIsOriginalLine ==
    /\ (pc = "panicked" => \E i \in 1..Len(file) : Malformed(file[i]))
    /\ pc = "loaded" =>
          /\ DOMAIN result.map = {Key(DataLines[i]) : i \in 1..Len(DataLines)}
          /\ \A k \in DOMAIN result.map : Rejoined(k) = LinesOfKey(k)

\* C2 amended: the same, except that the rejoined line has every hyphen of
\* the feature field replaced by an underscore.
C2_RejoinedIsNormalisedLine ==
    /\ (pc = "panicked" => \E i \in 1..Len(file) : Malformed(file[i]))
    /\ pc = "loaded" =>
          /\ DOMAIN result.map = {Key(DataLines[i]) : i \in 1..Len(DataLines)}
          /\ \A k \in DOMAIN result.map : Rejoined(k) = NormalisedLinesOfKey(k)

C2_Witness ==
    /\ pc = "loaded"
    /\ \E i \in 1..Len(file) : file[i] = LineHyphen
    /\ \E i \in 1..Len(file) : file[i] = LineFoo

\* C3: two successful runs of the generator on the same definition file
\* write the same text.
C3_SameOutputEveryRun ==
    (run = 2 /\ pc = "generated" /\ prev.ok) => dest.lines = prev.lines

\* C4: in the generated text, the inserts of the method of every feature are
\* the inserts of that feature's lines, in the order of the file.
C4_InsertsInFileOrder ==
    pc = "generated" =>
        \A k \in DOMAIN result.map :
            /\ Occurrences(dest.lines, writeln(FmtFnOpen, <<k>>)) = 1
            /\ MethodBody(dest.lines, k) =
                  [j \in 1..Len(LinesOfKey(k)) |-> InsertOf(LinesOfKey(k)[j])]

C4_Witness ==
    /\ pc = "generated"
    /\ file = <<LineFoo, LineHyphen, LineBar>>

\* C6: the generated text declares one constant per data line whose name is
\* not the two-character sentinel, named by the line's name and bound to its
\* OID, and none for a sentinel line, whose insert is written all the same.
C6_ConstantIffNotSentinel ==
    pc = "generated" =>
        /\ \A i \in 1..Len(DataLines) :
              LET l == DataLines[i]
                  same == {j \in 1..Len(DataLines) : ConstOf(DataLines[j]) = ConstOf(l)}
              IN  /\ Occurrences(dest.lines, ConstOf(l)) =
                        IF Field(l, 2) = TwoQuotes THEN 0 ELSE Cardinality(same)
                  /\ Occurrences(dest.lines, InsertOf(l)) >= 1
        /\ Cardinality(WithFmt(dest.lines, FmtConst)) =
              Cardinality({i \in 1..Len(DataLines) : Field(DataLines[i], 2) # TwoQuotes})

C6_Witness ==
    /\ pc = "generated"
    /\ file = <<LineFoo, LineBar, LineUnderscore>>

\* C7: the generated text is the constants, a blank line, one impl block
\* opened once and closed by the last line, and in it one method per feature
\* key (the feature with its hyphens replaced), each behind its cfg line,
\* holding one insert per line of that feature and returning self; nothing
\* else is written.  The line of the scenario gives exactly its ten lines.
C7_OutputStructure ==
    pc = "generated" =>
        LET text == dest.lines
            n == Len(text)
            c == Cardinality(WithFmt(text, FmtConst))
            featureKeys == {Key(DataLines[i]) : i \in 1..Len(DataLines)}
        IN  /\ \A i \in 1..c : text[i].fmt = FmtConst
            /\ text[c + 1] = writeln(FmtBlank, <<>>)
            /\ text[c + 2] = writeln(FmtImplOpen, <<>>)
            /\ WithFmt(text, FmtImplOpen) = {c + 2}
            /\ WithFmt(text, FmtImplClose) = {n}
            /\ Cardinality(WithFmt(text, FmtFnOpen)) = Cardinality(featureKeys)
            /\ n = c + 3 + 5 * Cardinality(featureKeys) + Len(DataLines)
            /\ \A k \in featureKeys :
                  /\ \A j \in 1..Len(k) : k[j] # HYPHEN
                  /\ Occurrences(text, writeln(FmtFnOpen, <<k>>)) = 1
                  /\ LET i == CHOOSE j \in 1..n : text[j] = writeln(FmtFnOpen, <<k>>)
                         body == MethodBody(text, k)
                         m == Len(body)
                         lines == LinesOfKey(k)
                     IN  /\ i > c + 2
                         /\ text[i - 1] = writeln(FmtCfg, <<k>>)
                         /\ m = Len(lines)
                         /\ \A j \in 1..m :
                               Occurrences(body, InsertOf(lines[j])) =
                                  Cardinality({h \in 1..m : InsertOf(lines[h]) = InsertOf(lines[j])})
                         /\ text[i + m + 1] = writeln(FmtSelf, <<>>)
                         /\ text[i + m + 2] = writeln(FmtFnClose, <<>>)
                         /\ text[i + m + 3] = writeln(FmtBlank, <<>>)
            /\ file = <<LineFoo>> =>
                  text = << [fmt |-> "pub const {}: Oid<'static> = oid!({});",
                             args |-> <<OID_FOO, oid_1_2_3_4>>],
                            [fmt |-> "", args |-> <<>>],
                            [fmt |-> "impl OidRegistry {{", args |-> <<>>],
                            [fmt |-> "    #[cfg(feature = \"{}\")]", args |-> <<crypto>>],
                            [fmt |-> "    pub fn with_{}(mut self) -> Self {{", args |-> <<crypto>>],
                            [fmt |-> "        self.insert(oid!({}), OidEntry::new(\"{}\", \"{}\"));",
                             args |-> <<oid_1_2_3_4, foo, Foo_algorithm>>],
                            [fmt |-> "        self", args |-> <<>>],
                            [fmt |-> "    }}", args |-> <<>>],
                            [fmt |-> "", args |-> <<>>],
                            [fmt |-> "}}", args |-> <<>>] >>

C7_Witness ==
    /\ pc = "generated"
    /\ file = <<LineFoo, LineHyphen, LineUnderscore>>

\* C9: a run on a file with a malformed line never gets a table and never
\* touches the destination file; a run that reports success has kept every
\* data line in the table and has written the whole text, with the insert of
\* every data line and the constant of every line that wants one.
C9_AllOrNothing ==
    /\ pc \in {"start", "loaded", "panicked", "load_failed", "generated", "gen_failed"}
    /\ (\E i \in 1..Len(file) : Malformed(file[i])) =>
          /\ pc \in {"start", "panicked", "load_failed"}
          /\ result.tag # "Ok"
          /\ result.map = EmptyMap
          /\ dest = NoFile
    /\ pc \in {"loaded", "generated", "gen_failed"} =>
          /\ result.tag = "Ok"
          /\ \A k \in DOMAIN result.map : Len(result.map[k]) = Len(LinesOfKey(k))
          /\ \A i \in 1..Len(DataLines) : Key(DataLines[i]) \in DOMAIN result.map
    /\ pc = "generated" =>
          /\ dest.exists
          /\ Cardinality(WithFmt(dest.lines, FmtInsert)) = Len(DataLines)
          /\ dest.lines[Len(dest.lines)].fmt = FmtImplClose
          /\ \A i \in 1..Len(DataLines) :
                /\ Occurrences(dest.lines, InsertOf(DataLines[i])) >= 1
                /\ Field(DataLines[i], 2) # TwoQuotes =>
                      Occurrences(dest.lines, ConstOf(DataLines[i])) >= 1

C9_Witness ==
    /\ pc = "panicked"
    /\ file = <<LineFoo, LineBar, LineShort>>
    /\ dest = NoFile

----------------------------------------------------------------------------
\* The dotted text of the OIDs of the model, written out

ExpectedDotted(oid) ==
    CASE oid = <<2, 10>> -> <<"2", ".", "1", "0">>
      [] oid = <<1, 2, 3, 4>> -> <<"1", ".", "2", ".", "3", ".", "4">>
      [] OTHER -> <<"1", ".", Digits[oid[2] + 1]>>

ReadOps == {"get", "keys", "values", "iter", "format_oid"}

\* C5: an insert stores its entry under its OID, returns the entry stored
\* there before (none when the OID was absent) and leaves every other OID's
\* entry alone; a get or an insert of the same OID right after an insert
\* returns the entry that insert stored.
C5_InsertThenGet ==
    [][ /\ last'.op = "insert" =>
              /\ DOMAIN registry' = DOMAIN registry \cup {last'.oid}
              /\ registry'[last'.oid] = last'.entry
              /\ last'.ret = IF last'.oid \in DOMAIN registry
                             THEN [some |-> TRUE, v |-> registry[last'.oid]]
                             ELSE [some |-> FALSE, v |-> NoOidEntry]
              /\ \A o \in DOMAIN registry \ {last'.oid} : registry'[o] = registry[o]
        /\ (last.op = "insert" /\ last'.op \in {"insert", "get"} /\ last'.oid = last.oid) =>
              last'.ret = [some |-> TRUE, v |-> last.entry]
      ]_vars

C5_Witness ==
    /\ last.op = "insert"
    /\ last.ret.some
    /\ last.ret.v # last.entry
    /\ Cardinality(DOMAIN registry) >= 2

\* C8: format_oid returns the short name stored under the OID, a space and
\* the dotted text in parentheses when the OID is a key, the dotted text
\* alone when it is not, and leaves the registry as it was.
C8_FormatOid ==
    [][ last'.op = "format_oid" =>
            /\ registry' = registry
            /\ last'.ret =
                  IF last'.oid \in DOMAIN registry
                  THEN registry[last'.oid].sn \o <<" ", "(">>
                       \o ExpectedDotted(last'.oid) \o <<")">>
                  ELSE ExpectedDotted(last'.oid)
            /\ (last'.oid = <<1, 2, 3, 4>> /\ last'.oid \in DOMAIN registry
                /\ registry[last'.oid].sn = foo) =>
                  last'.ret = <<"f", "o", "o", " ", "(", "1", ".", "2", ".", "3", ".", "4", ")">>
      ]_vars

C8_Witness ==
    /\ last.op = "format_oid"
    /\ last.oid = <<1, 2, 3, 4>>
    /\ last.ret = <<"f", "o", "o", " ", "(", "1", ".", "2", ".", "3", ".", "4", ")">>
    /\ <<2, 10>> \in DOMAIN registry

\* C10: the registry starts empty, no step takes a key away, and get, keys,
\* values, iter and format_oid leave the registry as it was.
C10_NeverShrinks ==
    /\ registry = EmptyMap
    /\ [][ /\ DOMAIN registry \subseteq DOMAIN registry'
           /\ last'.op \in ReadOps => registry' = registry
         ]_vars

C10_Witness ==
    /\ last.op = "get"
    /\ last.ret.some
    /\ Cardinality(DOMAIN registry) >= 3
    /\ \E o \in DOMAIN registry : registry[o] \notin Entries

====
